---- MODULE Spec2Model ----
(***************************************************************************)
(* A model of src/native/snippet-expander-win.c, the Windows global        *)
(* snippet keyword watcher: the keyword registry, the character            *)
(* classifier, the decoding of key events, the token matching engine, the  *)
(* messages written to standard output and the life cycle of main().       *)
(*                                                                         *)
(* Characters are byte values (0..255); a C string is a sequence of        *)
(* non-zero bytes.  A 256-entry 0/1 table (g_allowed, g_delimiters) is the *)
(* set of the bytes whose entry is 1.                                      *)
(***************************************************************************)
EXTENDS Integers, Sequences, FiniteSets, TLC

(***************************************************************************)
(* Bounds of the model.                                                    *)
(***************************************************************************)
\* The number of decoded units and control signals the log `hist' may hold.
MaxEvents == 5
\* The largest number of units one key-down decodes to (wbuf holds 8).
MaxUnits == 2

(***************************************************************************)
(* Program constants.                                                      *)
(***************************************************************************)
MAX_KEYWORDS == 512
MAX_KEYWORD_LEN == 128
MAX_TOKEN_LEN == 512
HC_ACTION == 0

(***************************************************************************)
(* Character literals: the byte value of a one-character string.  The     *)
(* grave accent (byte 96) is written "BACKQUOTE".                          *)
(***************************************************************************)
Printable ==
  <<" ", "!", "\"", "#", "$", "%", "&", "'", "(", ")", "*", "+", ",", "-",
    ".", "/", "0", "1", "2", "3", "4", "5", "6", "7", "8", "9", ":", ";",
    "<", "=", ">", "?", "@", "A", "B", "C", "D", "E", "F", "G", "H", "I",
    "J", "K", "L", "M", "N", "O", "P", "Q", "R", "S", "T", "U", "V", "W",
    "X", "Y", "Z", "[", "\\", "]", "^", "_", "BACKQUOTE", "a", "b", "c", "d", "e",
    "f", "g", "h", "i", "j", "k", "l", "m", "n", "o", "p", "q", "r", "s",
    "t", "u", "v", "w", "x", "y", "z", "{", "|", "}", "~">>

Range(s) == {s[i] : i \in 1..Len(s)}

PrintableCode ==
  [s \in Range(Printable) |-> 31 + (CHOOSE i \in 1..Len(Printable) : Printable[i] = s)]

Chr(s) ==
  CASE s = "\t" -> 9
    [] s = "\n" -> 10
    [] s = "\r" -> 13
    [] OTHER -> PrintableCode[s]

\* A C string literal, written as the tuple of its characters.
Str(t) == [i \in 1..Len(t) |-> Chr(t[i])]

Min(a, b) == IF a < b THEN a ELSE b

\* tolower() of <ctype.h> in the "C" locale, on an unsigned char.
tolower(c) == IF c >= 65 /\ c <= 90 THEN c + 32 ELSE c

\* The last n elements of s (all of s when it is shorter).
Last(s, n) == IF Len(s) <= n THEN s ELSE SubSeq(s, Len(s) - n + 1, Len(s))

(***************************************************************************)
(* The character classifier.                                               *)
(***************************************************************************)
\* the string literal of seed_charsets
DefaultDelimiters ==
  Str(<<" ", "\t", "\r", "\n", ".", ",", "!", "?", ";", ":", "(", ")", "[",
        "]", "{", "}", "<", ">", "/", "\\", "|", "@", "#", "$", "%", "^",
        "&", "*", "+", "=", "BACKQUOTE", "~", "\"", "'">>)

\* seed_charsets(): g_allowed after the memset and the four assignments
seed_allowed ==
  {c \in 0..255 : \/ c >= Chr("a") /\ c <= Chr("z")
                  \/ c >= Chr("0") /\ c <= Chr("9")
                  \/ c = Chr("-")
                  \/ c = Chr("_")}

\* seed_charsets(): g_delimiters after the memset and the loop
seed_delimiters == Range(DefaultDelimiters)

\* The bytes apply_keyword_chars_to_charsets() does not skip.
WidenedBytes(kws) ==
  {c \in UNION {{tolower(kws[i][j]) : j \in 1..Len(kws[i])} : i \in 1..Len(kws)} :
     ~(c = Chr("\r") \/ c = Chr("\n") \/ c = Chr("\t") \/ c = Chr(" "))}

\* apply_keyword_chars_to_charsets() with the assignment to g_allowed lost:
\* the bytes are cleared in g_delimiters only.
apply_allowed_unwidened(allowed, kws) == allowed

\* apply_keyword_chars_to_charsets(): g_allowed[c] = 1 for every such byte
apply_allowed(allowed, kws) == allowed \cup WidenedBytes(kws)

\* apply_keyword_chars_to_charsets() without the g_delimiters[c] = 0.
apply_delimiters_unremoved(delimiters, kws) == delimiters

\* apply_keyword_chars_to_charsets(): g_delimiters[c] = 0 for every such byte
apply_delimiters(delimiters, kws) == delimiters \ WidenedBytes(kws)

(***************************************************************************)
(* The keyword registry.  A registry is [kws, maxlen]: g_keywords[0 ..      *)
(* g_keyword_count-1] as a sequence, and g_max_keyword_len.                *)
(***************************************************************************)
\* append_keyword() without the loop that looks for a duplicate.
append_keyword_no_duplicate_check(reg, src) ==
  IF Len(reg.kws) >= MAX_KEYWORDS
    THEN [ret |-> 0, reg |-> reg]
    ELSE LET n == Min(Len(src), MAX_KEYWORD_LEN)
             buf == [i \in 1..n |-> tolower(src[i])]
         IN  IF n = 0
               THEN [ret |-> 0, reg |-> reg]
               ELSE [ret |-> 1,
                     reg |-> [kws |-> Append(reg.kws, buf),
                              maxlen |-> IF n > reg.maxlen THEN n ELSE reg.maxlen]]

\* append_keyword(src): the return value and the registry it leaves
append_keyword(reg, src) ==
  IF Len(reg.kws) >= MAX_KEYWORDS
    THEN [ret |-> 0, reg |-> reg]
    ELSE LET n == Min(Len(src), MAX_KEYWORD_LEN)
             buf == [i \in 1..n |-> tolower(src[i])]
         IN  IF n = 0
               THEN [ret |-> 0, reg |-> reg]
               ELSE IF \E i \in 1..Len(reg.kws) : reg.kws[i] = buf
                 THEN [ret |-> 1, reg |-> reg]
                 ELSE [ret |-> 1,
                       reg |-> [kws |-> Append(reg.kws, buf),
                                maxlen |-> IF n > reg.maxlen THEN n ELSE reg.maxlen]]

\* One iteration of the loop of parse_keywords_json() on character ch.
\* s = [in_string, escaped, current, reg]
parse_step(s, ch) ==
  IF ~s.in_string
    THEN IF ch = Chr("\"")
           THEN [s EXCEPT !.in_string = TRUE, !.escaped = FALSE, !.current = <<>>]
           ELSE s
    ELSE IF s.escaped
      THEN LET out == CASE ch = Chr("n") -> Chr("\n")
                        [] ch = Chr("r") -> Chr("\r")
                        [] ch = Chr("t") -> Chr("\t")
                        [] OTHER -> ch
           IN  [s EXCEPT !.escaped = FALSE,
                         !.current = IF Len(s.current) < MAX_KEYWORD_LEN
                                       THEN Append(s.current, out)
                                       ELSE s.current]
      ELSE IF ch = Chr("\\")
        THEN [s EXCEPT !.escaped = TRUE]
        ELSE IF ch = Chr("\"")
          THEN [s EXCEPT !.in_string = FALSE,
                         !.reg = append_keyword(s.reg, s.current).reg]
          ELSE [s EXCEPT !.current = IF Len(s.current) < MAX_KEYWORD_LEN
                                       THEN Append(s.current, ch)
                                       ELSE s.current]

RECURSIVE parse_loop(_, _, _)
parse_loop(json, p, s) ==
  IF p > Len(json) THEN s ELSE parse_loop(json, p + 1, parse_step(s, json[p]))

\* parse_keywords_json(json): the registry it leaves, from the initial one
parse_keywords_json(json) ==
  parse_loop(json, 1,
             [in_string |-> FALSE, escaped |-> FALSE, current |-> <<>>,
              reg |-> [kws |-> <<>>, maxlen |-> 1]]).reg

\* parse_keywords_json() returning 1 whatever was registered.
parse_ok_never_fails(reg) == TRUE

\* parse_keywords_json(json): its return value, g_keyword_count > 0
parse_ok(reg) == Len(reg.kws) > 0

(***************************************************************************)
(* The messages written to standard output: each is the byte string one    *)
(* printf() call writes.                                                   *)
(***************************************************************************)
\* emit_ready()
emit_ready ==
  Str(<<"{", "\"", "r", "e", "a", "d", "y", "\"", ":", "t", "r", "u", "e", "}", "\n">>)

\* The pieces of the format strings of emit_error() and emit_keyword().
ErrorHead == Str(<<"{", "\"", "e", "r", "r", "o", "r", "\"", ":", "\"">>)
KeywordHead == Str(<<"{", "\"", "k", "e", "y", "w", "o", "r", "d", "\"", ":", "\"">>)
DelimiterHead ==
  Str(<<"\"", ",", "\"", "d", "e", "l", "i", "m", "i", "t", "e", "r", "\"", ":", "\"">>)
MessageTail == Str(<<"\"", "}", "\n">>)

\* emit_error(msg)
emit_error(msg) == ErrorHead \o msg \o MessageTail

\* The three messages main() passes to emit_error().
UsageMsg ==
  Str(<<"U", "s", "a", "g", "e", ":", " ", "s", "n", "i", "p", "p", "e", "t", "-",
        "e", "x", "p", "a", "n", "d", "e", "r", "-", "w", "i", "n", " ", "<", "k",
        "e", "y", "w", "o", "r", "d", "s", "-", "j", "s", "o", "n", ">">>)

InvalidMsg ==
  Str(<<"I", "n", "v", "a", "l", "i", "d", " ", "o", "r", " ", "e", "m", "p", "t",
        "y", " ", "k", "e", "y", "w", "o", "r", "d", "s", " ", "J", "S", "O", "N">>)

HookFailedMsg ==
  Str(<<"S", "e", "t", "W", "i", "n", "d", "o", "w", "s", "H", "o", "o", "k", "E",
        "x", " ", "f", "a", "i", "l", "e", "d">>)

\* json_escape_char(c, out, out_size): the C string left in out
json_escape_char(c) ==
  CASE c = Chr("\\") -> Str(<<"\\", "\\">>)
    [] c = Chr("\"") -> Str(<<"\\", "\"">>)
    [] c = Chr("\n") -> Str(<<"\\", "n">>)
    [] c = Chr("\r") -> Str(<<"\\", "r">>)
    [] c = Chr("\t") -> Str(<<"\\", "t">>)
    [] c = 0 -> <<>>
    [] OTHER -> <<c>>

\* emit_keyword(keyword, delimiter)
emit_keyword(keyword, delimiter) ==
  KeywordHead \o keyword \o DelimiterHead \o json_escape_char(delimiter) \o MessageTail

(***************************************************************************)
(* The state.                                                              *)
(***************************************************************************)
VARIABLES
  pc,                \* where main() is: "main", "install", "loop", "exited"
  exit_code,         \* the value main() returned, -1 while it runs
  argv,              \* the arguments after the program name
  layoutUnits,       \* the units the active keyboard layout decodes keys to
  env,               \* the kind of events delivered: "typing" or "keyboard"
  g_hook,            \* "NULL" or "HOOK"
  hookLog,           \* the hook API calls made so far, each with its result
  g_keywords,        \* g_keywords[0 .. g_keyword_count-1]
  g_max_keyword_len,
  g_allowed,
  g_delimiters,
  g_token,           \* g_token[0 .. g_token_len-1]
  stdout,            \* the byte strings written, one per printf() call
  hist,              \* log: every unit or control signal the engine handled
  lastKey,           \* log: the last call of keyboard_hook()
  appendLog,         \* log: the calls of append_keyword() made one by one
  monitor            \* the process running hotkey-hold-monitor.c

vars ==
  <<pc, exit_code, argv, layoutUnits, env, g_hook, hookLog, g_keywords,
    g_max_keyword_len, g_allowed, g_delimiters, g_token, stdout, hist, lastKey,
    appendLog, monitor>>

argc == Len(argv) + 1
g_keyword_count == Len(g_keywords)
g_token_len == Len(g_token)

(***************************************************************************)
(* The token matching engine.  The operators below take and return an      *)
(* engine state st = [tok, out, hist, calls]: the token buffer, the        *)
(* messages written, the log, and the ToUnicodeEx() calls of this event.   *)
(***************************************************************************)
\* is_modifier_down() testing VK_CONTROL alone.
is_modifier_down_ctrl_only(held) == IF "VK_CONTROL" \in held THEN 1 ELSE 0

\* is_modifier_down(), given the set of keys GetAsyncKeyState() reports down
is_modifier_down(held) ==
  IF "VK_CONTROL" \in held THEN 1
  ELSE IF "VK_MENU" \in held THEN 1
  ELSE IF "VK_LWIN" \in held THEN 1
  ELSE IF "VK_RWIN" \in held THEN 1
  ELSE 0

\* clear_token()
clear_token == <<>>

\* trim_token_to_max() without the memmove: the oldest characters are kept.
trim_token_to_max_keeps_oldest(tok) ==
  IF Len(tok) <= g_max_keyword_len THEN tok ELSE SubSeq(tok, 1, g_max_keyword_len)

\* trim_token_to_max(), on the token buffer tok
trim_token_to_max(tok) ==
  IF Len(tok) <= g_max_keyword_len
    THEN tok
    ELSE LET keep == g_max_keyword_len
             remove == Len(tok) - keep
         IN  SubSeq(tok, remove + 1, remove + keep)

\* keyword_index() comparing with g_keywords[0] alone.
keyword_index_first_only(text) ==
  IF text # <<>> /\ g_keyword_count > 0 /\ g_keywords[1] = text THEN 0 ELSE -1

\* keyword_index(text): the 0-based index of text in g_keywords, or -1
keyword_index(text) ==
  IF text = <<>>
    THEN -1
    ELSE IF \E i \in 1..g_keyword_count : g_keywords[i] = text
      THEN (CHOOSE i \in 1..g_keyword_count :
              /\ g_keywords[i] = text
              /\ \A j \in 1..(i - 1) : g_keywords[j] # text) - 1
      ELSE -1

\* The log entry of one unit or control signal: what it was, the messages it
\* made the engine emit, and the token buffer it left.
Logged(st, kind, c, emits, tok) ==
  [st EXCEPT !.tok = tok,
             !.hist = Append(@, [kind |-> kind, c |-> c, emit |-> emits, tok |-> tok])]

\* A call of emit_keyword(): the message written.
Emitted(st, keyword, delimiter) ==
  [st EXCEPT !.out = Append(@, emit_keyword(keyword, delimiter))]

\* process_char() without the clear_token() that follows a match on the
\* token-character path.
process_char_keeps_token(st, raw) ==
  LET c == tolower(raw) IN
  IF c \in g_allowed
    THEN LET t == trim_token_to_max(Append(st.tok, c))
         IN  IF keyword_index(t) >= 0
               THEN Logged(Emitted(st, t, 0), "char", raw,
                           <<[keyword |-> t, delimiter |-> 0]>>, t)
               ELSE Logged(st, "char", raw, <<>>, t)
    ELSE IF c \in g_delimiters /\ Len(st.tok) > 0 /\ keyword_index(st.tok) >= 0
      THEN Logged(Emitted(st, st.tok, c), "char", raw,
                  <<[keyword |-> st.tok, delimiter |-> c]>>, clear_token)
      ELSE Logged(st, "char", raw, <<>>, clear_token)

\* process_char() emitting at a delimiter whatever the token buffer holds.
process_char_delimiter_unchecked(st, raw) ==
  LET c == tolower(raw) IN
  IF c \in g_allowed
    THEN LET appended == IF Len(st.tok) < MAX_TOKEN_LEN THEN Append(st.tok, c) ELSE st.tok
             t == trim_token_to_max(appended)
         IN  IF keyword_index(t) >= 0
               THEN Logged(Emitted(st, t, 0), "char", raw,
                           <<[keyword |-> t, delimiter |-> 0]>>, clear_token)
               ELSE Logged(st, "char", raw, <<>>, t)
    ELSE IF c \in g_delimiters /\ Len(st.tok) > 0
      THEN Logged(Emitted(st, st.tok, c), "char", raw,
                  <<[keyword |-> st.tok, delimiter |-> c]>>, clear_token)
      ELSE Logged(st, "char", raw, <<>>, clear_token)

\* process_char() without the clear_token() that follows a match on the
\* delimiter path.
process_char_delimiter_keeps_token(st, raw) ==
  LET c == tolower(raw) IN
  IF c \in g_allowed
    THEN LET appended == IF Len(st.tok) < MAX_TOKEN_LEN THEN Append(st.tok, c) ELSE st.tok
             t == trim_token_to_max(appended)
         IN  IF keyword_index(t) >= 0
               THEN Logged(Emitted(st, t, 0), "char", raw,
                           <<[keyword |-> t, delimiter |-> 0]>>, clear_token)
               ELSE Logged(st, "char", raw, <<>>, t)
    ELSE IF c \in g_delimiters /\ Len(st.tok) > 0 /\ keyword_index(st.tok) >= 0
      THEN Logged(Emitted(st, st.tok, c), "char", raw,
                  <<[keyword |-> st.tok, delimiter |-> c]>>, st.tok)
      ELSE Logged(st, "char", raw, <<>>, clear_token)

\* process_char(raw)
process_char(st, raw) ==
  LET c == tolower(raw) IN
  IF c \in g_allowed
    THEN LET appended == IF Len(st.tok) < MAX_TOKEN_LEN THEN Append(st.tok, c) ELSE st.tok
             t == trim_token_to_max(appended)
         IN  IF keyword_index(t) >= 0
               THEN Logged(Emitted(st, t, 0), "char", raw,
                           <<[keyword |-> t, delimiter |-> 0]>>, clear_token)
               ELSE Logged(st, "char", raw, <<>>, t)
    ELSE IF c \in g_delimiters
      THEN IF Len(st.tok) > 0 /\ keyword_index(st.tok) >= 0
             THEN Logged(Emitted(st, st.tok, c), "char", raw,
                         <<[keyword |-> st.tok, delimiter |-> c]>>, clear_token)
             ELSE Logged(st, "char", raw, <<>>, clear_token)
      ELSE Logged(st, "char", raw, <<>>, clear_token)

\* The loop of process_key_event() leaving after its first iteration.
process_units_first_only(st, wbuf, from) ==
  IF from > Len(wbuf)
    THEN st
    ELSE LET wc == wbuf[from]
         IN  IF wc <= 0 \/ wc > 127
               THEN Logged(st, "clear", 0, <<>>, clear_token)
               ELSE process_char(st, wc)

\* The loop of process_key_event() over wbuf[i], i = from-1 .. rc-1.
RECURSIVE process_units(_, _, _)
process_units(st, wbuf, from) ==
  IF from > Len(wbuf)
    THEN st
    ELSE LET wc == wbuf[from]
         IN  process_units(IF wc <= 0 \/ wc > 127
                             THEN Logged(st, "clear", 0, <<>>, clear_token)
                             ELSE process_char(st, wc),
                           wbuf, from + 1)

\* process_key_event() without the neutralizing ToUnicodeEx() call.
process_key_event_no_neutralizing_decode(st, key) ==
  IF key.vk = "VK_BACK"
    THEN IF Len(st.tok) > 0
           THEN Logged(st, "back", 0, <<>>, SubSeq(st.tok, 1, Len(st.tok) - 1))
           ELSE Logged(st, "back", 0, <<>>, st.tok)
    ELSE IF is_modifier_down(key.held) # 0
      THEN Logged(st, "clear", 0, <<>>, clear_token)
      ELSE IF ~key.kbOk
        THEN Logged(st, "clear", 0, <<>>, clear_token)
        ELSE IF key.rc <= 0
          THEN [st EXCEPT !.calls = <<"key_state">>]
          ELSE process_units([st EXCEPT !.calls = <<"key_state">>],
                             SubSeq(key.wbuf, 1, key.rc), 1)

\* process_key_event() testing is_modifier_down() before VK_BACK.
process_key_event_modifier_first(st, key) ==
  IF is_modifier_down(key.held) # 0
    THEN Logged(st, "clear", 0, <<>>, clear_token)
    ELSE IF key.vk = "VK_BACK"
      THEN IF Len(st.tok) > 0
             THEN Logged(st, "back", 0, <<>>, SubSeq(st.tok, 1, Len(st.tok) - 1))
             ELSE Logged(st, "back", 0, <<>>, st.tok)
      ELSE IF ~key.kbOk
        THEN Logged(st, "clear", 0, <<>>, clear_token)
        ELSE IF key.rc <= 0
          THEN IF key.rc < 0
                 THEN [st EXCEPT !.calls = <<"key_state", "empty_state">>]
                 ELSE [st EXCEPT !.calls = <<"key_state">>]
          ELSE process_units([st EXCEPT !.calls = <<"key_state">>],
                             SubSeq(key.wbuf, 1, key.rc), 1)

\* process_key_event(vk, scan_code).  key = [vk, held, kbOk, rc, wbuf]: the
\* virtual key, the modifier keys GetAsyncKeyState() reports down, whether
\* GetKeyboardState() succeeds, and what ToUnicodeEx() returns and decodes.
process_key_event(st, key) ==
  IF key.vk = "VK_BACK"
    THEN IF Len(st.tok) > 0
           THEN Logged(st, "back", 0, <<>>, SubSeq(st.tok, 1, Len(st.tok) - 1))
           ELSE Logged(st, "back", 0, <<>>, st.tok)
    ELSE IF is_modifier_down(key.held) # 0
      THEN Logged(st, "clear", 0, <<>>, clear_token)
      ELSE IF ~key.kbOk
        THEN Logged(st, "clear", 0, <<>>, clear_token)
        ELSE IF key.rc <= 0
          THEN IF key.rc < 0
                 THEN [st EXCEPT !.calls = <<"key_state", "empty_state">>]
                 ELSE [st EXCEPT !.calls = <<"key_state">>]
          ELSE process_units([st EXCEPT !.calls = <<"key_state">>],
                             SubSeq(key.wbuf, 1, key.rc), 1)

\* keyboard_hook(nCode, wp, lp), before it calls CallNextHookEx()
keyboard_hook(st, in) ==
  IF in.nCode = HC_ACTION /\ (in.wp = "WM_KEYDOWN" \/ in.wp = "WM_SYSKEYDOWN")
    THEN process_key_event(st, in.key)
    ELSE st

(***************************************************************************)
(* The runs explored.  A run is a command line main() is started with,     *)
(* the units the keyboard layout of that run decodes key-downs to, and the *)
(* kind of events its environment delivers: "typing" is plain key-downs of *)
(* one unit each, Backspace with and without Ctrl, and Ctrl held with a    *)
(* key; "keyboard" is every event keyboard_hook() tells apart.             *)
(***************************************************************************)
ESC == 27
E_ACUTE == 233

Configs ==
  { \* ["sig","btw"]
    [argv |-> <<Str(<<"[", "\"", "s", "i", "g", "\"", ",", "\"", "b", "t", "w", "\"", "]">>)>>,
     units |-> {Chr("s"), Chr("i"), Chr("g"), Chr(" ")}, env |-> "typing"],
    \* ["Ab","ba"]
    [argv |-> <<Str(<<"[", "\"", "A", "b", "\"", ",", "\"", "b", "a", "\"", "]">>)>>,
     units |-> {Chr("a"), Chr("B")}, env |-> "typing"],
    \* ["a","bb"]
    [argv |-> <<Str(<<"[", "\"", "a", "\"", ",", "\"", "b", "b", "\"", "]">>)>>,
     units |-> {Chr("a"), Chr("b"), Chr(" ")}, env |-> "typing"],
    \* ["a b"]
    [argv |-> <<Str(<<"[", "\"", "a", " ", "b", "\"", "]">>)>>,
     units |-> {Chr("a"), Chr(" "), ESC}, env |-> "typing"],
    \* [".a","a","a."]
    [argv |-> <<Str(<<"[", "\"", ".", "a", "\"", ",", "\"", "a", "\"", ",",
                      "\"", "a", ".", "\"", "]">>)>>,
     units |-> {Chr("."), Chr("a")}, env |-> "typing"],
    \* ["\"\\"], the one keyword of the two characters " and \
    [argv |-> <<Str(<<"[", "\"", "\\", "\"", "\\", "\\", "\"", "]">>)>>,
     units |-> {Chr("\""), Chr("\\")}, env |-> "typing"],
    \* ["aa"]
    [argv |-> <<Str(<<"[", "\"", "a", "a", "\"", "]">>)>>,
     units |-> {Chr("a"), E_ACUTE}, env |-> "keyboard"],
    \* []
    [argv |-> <<Str(<<"[", "]">>)>>, units |-> {Chr("a")}, env |-> "typing"],
    \* [""]
    [argv |-> <<Str(<<"[", "\"", "\"", "]">>)>>, units |-> {Chr("a")}, env |-> "typing"],
    \* ["ab   (the string is never closed)
    [argv |-> <<Str(<<"[", "\"", "a", "b">>)>>, units |-> {Chr("a")}, env |-> "typing"],
    \* no argument
    [argv |-> <<>>, units |-> {Chr("a")}, env |-> "typing"] }

\* The sets of modifier keys held down while a key event is delivered.
HeldSets == {{}, {"VK_CONTROL"}, {"VK_MENU"}, {"VK_LWIN"}, {"VK_RWIN"}}

\* What one key-down decodes to: 1 .. MaxUnits units.
UnitSeqs == UNION {[1..n -> layoutUnits] : n \in 1..MaxUnits}

\* A key-down of a key that decodes to the units w, with the keys h held.
KeyDown(h, w) == [vk |-> "VK_KEY", held |-> h, kbOk |-> TRUE, rc |-> Len(w), wbuf |-> w]

\* A key-down of Backspace, with the keys h held.
BackDown(h) == [vk |-> "VK_BACK", held |-> h, kbOk |-> TRUE, rc |-> 0, wbuf |-> <<>>]

\* The key events delivered to process_key_event().
Keys ==
  IF env = "typing"
    THEN {KeyDown({}, <<u>>) : u \in layoutUnits}
         \cup {BackDown({}), BackDown({"VK_CONTROL"})}
         \cup {KeyDown({"VK_CONTROL"}, <<u>>) : u \in layoutUnits}
    ELSE {KeyDown({}, w) : w \in UnitSeqs}
         \cup {BackDown(h) : h \in HeldSets}
         \cup {KeyDown(h, <<u>>) : h \in HeldSets \ {{}}, u \in layoutUnits}
         \cup {[KeyDown({}, <<>>) EXCEPT !.kbOk = FALSE]}
         \cup {[KeyDown({}, <<>>) EXCEPT !.rc = r] : r \in {-1, 0}}

\* The calls of keyboard_hook(): key-downs (WM_SYSKEYDOWN while Alt is held)
\* and, in a "keyboard" run, key-ups and calls with a code other than
\* HC_ACTION.
HookInputs ==
  {[nCode |-> HC_ACTION,
    wp |-> IF "VK_MENU" \in k.held THEN "WM_SYSKEYDOWN" ELSE "WM_KEYDOWN",
    key |-> k] : k \in Keys}
  \cup {[nCode |-> c.nCode, wp |-> c.wp, key |-> KeyDown({}, <<u>>)] :
          c \in IF env = "typing"
                  THEN {}
                  ELSE {[nCode |-> HC_ACTION, wp |-> "WM_KEYUP"],
                        [nCode |-> HC_ACTION, wp |-> "WM_SYSKEYUP"],
                        [nCode |-> -1, wp |-> "WM_KEYDOWN"]},
          u \in layoutUnits}

NoKey ==
  [nCode |-> -1, wp |-> "none",
   key |-> [vk |-> "none", held |-> {}, kbOk |-> TRUE, rc |-> 0, wbuf |-> <<>>],
   before |-> <<>>, nout |-> 0, calls |-> <<>>]

\* The process of hotkey-hold-monitor.c before it is started: its statics as
\* the C initializers leave them.  pc is "off", "main", "install", "loop" or
\* "exited"; quit is whether PostQuitMessage() has been called; last is the
\* log of the last call of kbhook() and calls the number of its calls.
MonitorOff ==
  [pc |-> "off", exit_code |-> -1, argv |-> <<>>,
   g_hook |-> "NULL", g_vk |-> -1, g_need_ctrl |-> 0, g_need_alt |-> 0,
   g_need_shift |-> 0, g_pressed |-> 0,
   stdout |-> <<>>, hookLog |-> <<>>, quit |-> FALSE,
   last |-> [nCode |-> -1, wp |-> "none", vk |-> -1, ctrl |-> 0, alt |-> 0, shift |-> 0,
             nout |-> 0],
   calls |-> 0]

(***************************************************************************)
(* The initial state: the statics as the C initializers leave them.        *)
(***************************************************************************)
Init ==
  /\ \E cfg \in Configs : argv = cfg.argv /\ layoutUnits = cfg.units /\ env = cfg.env
  /\ pc = "main"
  /\ exit_code = -1
  /\ g_hook = "NULL"
  /\ hookLog = <<>>
  /\ g_keywords = <<>>
  /\ g_max_keyword_len = 1
  /\ g_allowed = {}
  /\ g_delimiters = {}
  /\ g_token = <<>>
  /\ stdout = <<>>
  /\ hist = <<>>
  /\ lastKey = NoKey
  /\ appendLog = <<>>
  /\ monitor = MonitorOff

(***************************************************************************)
(* main(), in three steps, and the hook callback.                          *)
(***************************************************************************)
\* main(), from its entry to the call of SetWindowsHookExW()
MainConfigure ==
  /\ pc = "main"
  /\ IF argc < 2
       THEN /\ stdout' = Append(stdout, emit_error(UsageMsg))
            /\ pc' = "exited"
            /\ exit_code' = 1
            /\ UNCHANGED <<g_keywords, g_max_keyword_len, g_allowed, g_delimiters>>
       ELSE LET reg == parse_keywords_json(argv[1]) IN
            /\ g_keywords' = reg.kws
            /\ g_max_keyword_len' = reg.maxlen
            /\ IF ~parse_ok(reg)
                 THEN /\ g_allowed' = seed_allowed
                      /\ g_delimiters' = seed_delimiters
                      /\ stdout' = Append(stdout, emit_error(InvalidMsg))
                      /\ pc' = "exited"
                      /\ exit_code' = 1
                 ELSE /\ g_allowed' = apply_allowed(seed_allowed, reg.kws)
                      /\ g_delimiters' = apply_delimiters(seed_delimiters, reg.kws)
                      /\ pc' = "install"
                      /\ UNCHANGED <<stdout, exit_code>>
  /\ UNCHANGED <<argv, layoutUnits, env, g_hook, hookLog, g_token, hist, lastKey,
                 appendLog, monitor>>

\* main() calling emit_ready() before it tests g_hook.
MainInstallHook_ReadyUnchecked(ok) ==
  /\ pc = "install"
  /\ g_hook' = IF ok THEN "HOOK" ELSE "NULL"
  /\ hookLog' = Append(hookLog, IF ok THEN "SetWindowsHookExW" ELSE "SetWindowsHookExW failed")
  /\ IF g_hook' = "NULL"
       THEN /\ stdout' = stdout \o <<emit_ready, emit_error(HookFailedMsg)>>
            /\ pc' = "exited"
            /\ exit_code' = 2
       ELSE /\ stdout' = Append(stdout, emit_ready)
            /\ pc' = "loop"
            /\ UNCHANGED exit_code
  /\ UNCHANGED <<argv, layoutUnits, env, g_keywords, g_max_keyword_len, g_allowed,
                 g_delimiters, g_token, hist, lastKey, appendLog, monitor>>

\* main(): SetWindowsHookExW() returning a hook (ok) or NULL, then emit_ready()
MainInstallHook(ok) ==
  /\ pc = "install"
  /\ g_hook' = IF ok THEN "HOOK" ELSE "NULL"
  /\ hookLog' = Append(hookLog, IF ok THEN "SetWindowsHookExW" ELSE "SetWindowsHookExW failed")
  /\ IF g_hook' = "NULL"
       THEN /\ stdout' = Append(stdout, emit_error(HookFailedMsg))
            /\ pc' = "exited"
            /\ exit_code' = 2
       ELSE /\ stdout' = Append(stdout, emit_ready)
            /\ pc' = "loop"
            /\ UNCHANGED exit_code
  /\ UNCHANGED <<argv, layoutUnits, env, g_keywords, g_max_keyword_len, g_allowed,
                 g_delimiters, g_token, hist, lastKey, appendLog, monitor>>

\* The message loop dispatching one call of keyboard_hook().
KeyboardHook(in) ==
  /\ pc = "loop"
  /\ LET st == keyboard_hook([tok |-> g_token, out |-> stdout, hist |-> hist,
                              calls |-> <<>>], in)
     IN  /\ Len(st.hist) <= MaxEvents
         /\ g_token' = st.tok
         /\ stdout' = st.out
         /\ hist' = st.hist
         /\ lastKey' = [nCode |-> in.nCode, wp |-> in.wp, key |-> in.key,
                        before |-> g_token, nout |-> Len(stdout), calls |-> st.calls]
  /\ UNCHANGED <<pc, exit_code, argv, layoutUnits, env, g_hook, hookLog, g_keywords,
                 g_max_keyword_len, g_allowed, g_delimiters, appendLog, monitor>>

\* main(): GetMessage() returning ret <= 0, UnhookWindowsHookEx(), return 0
MainLoopEnd(ret) ==
  /\ pc = "loop"
  /\ ret <= 0
  /\ hookLog' = Append(hookLog, "UnhookWindowsHookEx")
  /\ pc' = "exited"
  /\ exit_code' = 0
  /\ UNCHANGED <<argv, layoutUnits, env, g_hook, g_keywords, g_max_keyword_len, g_allowed,
                 g_delimiters, g_token, stdout, hist, lastKey, appendLog, monitor>>

Next ==
  \/ MainConfigure
  \/ \E ok \in BOOLEAN : MainInstallHook(ok)
  \/ \E in \in HookInputs : KeyboardHook(in)
  \/ \E ret \in {0, -1} : MainLoopEnd(ret)

Spec == Init /\ [][Next]_vars

(***************************************************************************)
(* Reading the log.  hist[i] is the i-th unit or control signal the engine *)
(* handled since the hook was installed, on an empty token buffer.         *)
(***************************************************************************)
Keywords == Range(g_keywords)

\* The unit was classified a token character / a delimiter.
IsTokenUnit(e) == e.kind = "char" /\ tolower(e.c) \in g_allowed
IsDelimiterUnit(e) ==
  e.kind = "char" /\ tolower(e.c) \notin g_allowed /\ tolower(e.c) \in g_delimiters

\* A keyword-match event fired at entry i.
Fired(i) == hist[i].emit # <<>>

\* The token buffer before entry i.
TokBefore(i) == IF i = 1 THEN <<>> ELSE hist[i - 1].tok

\* The characters of entries a..b, lower-cased.
Chars(a, b) == [m \in 1..(b - a + 1) |-> tolower(hist[a + m - 1].c)]

\* The events emitted at entries a..b, in order.
RECURSIVE EmitsIn(_, _)
EmitsIn(a, b) == IF a > b THEN <<>> ELSE hist[a].emit \o EmitsIn(a + 1, b)

\* Entries i .. i+Len(k)-1 are the characters of k, typed one after another.
Spells(i, k) ==
  /\ i + Len(k) - 1 <= Len(hist)
  /\ \A j \in 1..Len(k) :
       hist[i + j - 1].kind = "char" /\ tolower(hist[i + j - 1].c) = k[j]

\* Where the run of consecutive token characters that ends at entry i starts.
TokenRunStart(i) ==
  CHOOSE j \in 1..i :
    /\ \A m \in j..i : IsTokenUnit(hist[m])
    /\ j = 1 \/ ~IsTokenUnit(hist[j - 1])

\* The same, a run being ended by a match as well.
MatchFreeRunStart(i) ==
  CHOOSE j \in 1..i :
    /\ \A m \in j..i : IsTokenUnit(hist[m])
    /\ \A m \in j..(i - 1) : ~Fired(m)
    /\ j = 1 \/ ~IsTokenUnit(hist[j - 1]) \/ Fired(j - 1)

\* The run that ends at entry i began on a buffer just emptied: at the start
\* of the log, after a match, or after an input that is no token character
\* and no backspace.
CleanRun(i) ==
  LET j == MatchFreeRunStart(i)
  IN  j = 1 \/ Fired(j - 1) \/ hist[j - 1].kind = "clear"
        \/ (hist[j - 1].kind = "char" /\ ~IsTokenUnit(hist[j - 1]))

\* No backspace has touched the buffer that entry i finds.
BackspaceFree(i) ==
  i = 1 \/ hist[i - 1].kind = "clear" \/ Fired(i - 1)
    \/ (hist[i - 1].kind = "char" /\ ~IsTokenUnit(hist[i - 1]))
    \/ (IsTokenUnit(hist[i - 1]) /\ CleanRun(i - 1))

(***************************************************************************)
(* C1.                                                                     *)
(***************************************************************************)
\* C1, as stated: a keyword-match event fires at an input event if and only
\* if the run of consecutive token characters typed up to and including that
\* event, trimmed to its last g_max_keyword_len characters, is a keyword.
C1_FiresIffRunIsKeyword ==
  \A i \in 1..Len(hist) :
    Fired(i) <=>
      /\ IsTokenUnit(hist[i])
      /\ Last(Chars(TokenRunStart(i), i), g_max_keyword_len) \in Keywords

\* C1, amended: a run is ended by a match as well as by a non-token input.
\* At a token character whose run began on a buffer just emptied (not by a
\* backspace), a match fires if and only if that run, trimmed to its last
\* g_max_keyword_len characters, is a keyword, and the event carries that
\* keyword and the empty delimiter; at any other input that finds a buffer no
\* backspace has touched, no match fires.
C1_FiresIffRunSinceResetIsKeyword ==
  \A i \in 1..Len(hist) :
    /\ (IsTokenUnit(hist[i]) /\ CleanRun(i)) =>
         LET w == Last(Chars(MatchFreeRunStart(i), i), g_max_keyword_len)
         IN  /\ Fired(i) <=> w \in Keywords
             /\ Fired(i) => hist[i].emit = <<[keyword |-> w, delimiter |-> 0]>>
    /\ (~IsTokenUnit(hist[i]) /\ BackspaceFree(i)) => ~Fired(i)

\* C1 witness: a match fired at the end of a run longer than the window.
C1_Witness ==
  \E i \in 1..Len(hist) :
    /\ IsTokenUnit(hist[i]) /\ CleanRun(i) /\ Fired(i)
    /\ i - MatchFreeRunStart(i) + 1 > g_max_keyword_len
    /\ g_max_keyword_len >= 2

(***************************************************************************)
(* C2.                                                                     *)
(***************************************************************************)
\* C2: from an empty token buffer, the characters of a keyword k followed by
\* a delimiter d produce exactly one keyword-match event, carrying k and d.
C2_KeywordThenDelimiter ==
  \A k \in Keywords : \A i \in 1..Len(hist) :
    (/\ TokBefore(i) = <<>>
     /\ Spells(i, k)
     /\ i + Len(k) <= Len(hist)
     /\ IsDelimiterUnit(hist[i + Len(k)]))
    => EmitsIn(i, i + Len(k))
         = <<[keyword |-> k, delimiter |-> tolower(hist[i + Len(k)].c)]>>

(***************************************************************************)
(* C3.                                                                     *)
(***************************************************************************)
\* C3: when an uninterrupted run of token characters, in which no match has
\* fired yet, ends with the characters of a keyword k, a keyword-match event
\* for k is emitted at the last character of k.
C3_TrailingKeywordRecognized ==
  \A k \in Keywords : \A i \in 1..Len(hist) :
    (/\ i - Len(k) + 1 >= 1
     /\ IsTokenUnit(hist[i])
     /\ i - Len(k) + 1 >= TokenRunStart(i)
     /\ Spells(i - Len(k) + 1, k)
     /\ \A m \in TokenRunStart(i)..(i - 1) : ~Fired(m))
    => hist[i].emit = <<[keyword |-> k, delimiter |-> 0]>>

(***************************************************************************)
(* C4.                                                                     *)
(***************************************************************************)
\* Entries i .. i+Len(k)+1 are: the characters of k, typed on an empty
\* buffer, one backspace, and the final character of k again.
TypedThenRetyped(i, k) ==
  /\ TokBefore(i) = <<>>
  /\ Spells(i, k)
  /\ i + Len(k) + 1 <= Len(hist)
  /\ hist[i + Len(k)].kind = "back"
  /\ hist[i + Len(k) + 1].kind = "char"
  /\ tolower(hist[i + Len(k) + 1].c) = k[Len(k)]

\* No proper prefix of k is a keyword.
NoKeywordPrefix(k) == \A n \in 1..(Len(k) - 1) : SubSeq(k, 1, n) \notin Keywords

ModifiedKeyDown ==
  /\ lastKey.nCode = HC_ACTION
  /\ lastKey.wp \in {"WM_KEYDOWN", "WM_SYSKEYDOWN"}
  /\ lastKey.key.vk = "VK_KEY"
  /\ lastKey.key.held \cap {"VK_CONTROL", "VK_MENU", "VK_LWIN", "VK_RWIN"} # {}

\* C5: a key-down delivered while Ctrl, Alt or a Windows key is held appends
\* nothing to the token buffer, emits no message and leaves the buffer empty.
C5_ModifierSuppression ==
  ModifiedKeyDown =>
    /\ g_token = <<>>
    /\ Len(stdout) = lastKey.nout
    /\ hist # <<>> /\ hist[Len(hist)].kind = "clear"

\* C5 witness: such a key-down arrived while a token was in progress.
C5_Witness == ModifiedKeyDown /\ lastKey.before # <<>>

(***************************************************************************)
(* C6.                                                                     *)
(***************************************************************************)
Whitespace == {Chr(" "), Chr("\t"), Chr("\r"), Chr("\n")}

\* The keyword holds a byte of the default delimiter set.
HasDefaultDelimiter(k) == \E j \in 1..Len(k) : k[j] \in seed_delimiters

\* Typing k on an empty buffer emits one event, the match of k.
TypingMatchesExactly(k) ==
  \A i \in 1..Len(hist) :
    (TokBefore(i) = <<>> /\ Spells(i, k))
    => EmitsIn(i, i + Len(k) - 1) = <<[keyword |-> k, delimiter |-> 0]>>

\* C6, as stated: once the classifier is widened, every character of every
\* keyword that holds a default delimiter is a token character, and typing
\* the keyword on an empty buffer emits a match of exactly that keyword.
C6_DelimiterKeywordTypeable ==
  pc # "main" =>
    \A k \in Keywords :
      HasDefaultDelimiter(k) =>
        /\ \A j \in 1..Len(k) : k[j] \in g_allowed
        /\ TypingMatchesExactly(k)

\* C6, amended: this holds for the keywords that hold no whitespace (space,
\* tab, CR, LF stay delimiters); their characters are token characters and
\* no delimiters, and typing such a keyword emits the match of exactly that
\* keyword provided no proper prefix of it is a keyword.
C6_PunctuationKeywordTypeable ==
  pc # "main" =>
    \A k \in Keywords :
      (HasDefaultDelimiter(k) /\ Range(k) \cap Whitespace = {}) =>
        /\ \A j \in 1..Len(k) : k[j] \in g_allowed /\ k[j] \notin g_delimiters
        /\ NoKeywordPrefix(k) => TypingMatchesExactly(k)

\* C6 witness: a keyword that holds a default delimiter has been typed.
C6_Witness ==
  \E k \in Keywords : \E i \in 1..Len(hist) :
    /\ HasDefaultDelimiter(k) /\ Range(k) \cap Whitespace = {} /\ NoKeywordPrefix(k)
    /\ TokBefore(i) = <<>> /\ Spells(i, k)

(***************************************************************************)
(* C7.                                                                     *)
(***************************************************************************)
\* C7: the token buffer never holds more than g_max_keyword_len characters,
\* and while a run of token characters with no match, backspace or clear in
\* it is longer than that, the buffer is the last g_max_keyword_len
\* characters of the run, in order.
C7_Boundary ==
  /\ Len(g_token) <= g_max_keyword_len
  /\ \A i \in 1..Len(hist) :
       /\ Len(hist[i].tok) <= g_max_keyword_len
       /\ (IsTokenUnit(hist[i]) /\ ~Fired(i)
             /\ i - MatchFreeRunStart(i) + 1 > g_max_keyword_len)
          => hist[i].tok = Last(Chars(MatchFreeRunStart(i), i), g_max_keyword_len)
  /\ hist # <<>> => g_token = hist[Len(hist)].tok

\* C7 witness: a run two characters longer than a window of two or more.
C7_Witness ==
  \E i \in 1..Len(hist) :
    /\ IsTokenUnit(hist[i]) /\ ~Fired(i)
    /\ i - MatchFreeRunStart(i) + 1 > g_max_keyword_len + 1
    /\ g_max_keyword_len >= 2
    /\ g_token = hist[i].tok

(***************************************************************************)
(* Reading standard output: a reader of newline-delimited JSON.  A message *)
(* is read as one JSON object of string and true members, followed by a    *)
(* newline (RFC 8259, without insignificant white space and \u escapes,    *)
(* which the program never writes).                                        *)
(***************************************************************************)
JsonBad == [ok |-> FALSE, val |-> <<>>, next |-> 0]

\* What the escape \e stands for, 0 when there is no such escape.
JsonUnescape(e) ==
  CASE e = Chr("\"") -> Chr("\"")
    [] e = Chr("\\") -> Chr("\\")
    [] e = Chr("/") -> Chr("/")
    [] e = Chr("b") -> 8
    [] e = Chr("f") -> 12
    [] e = Chr("n") -> Chr("\n")
    [] e = Chr("r") -> Chr("\r")
    [] e = Chr("t") -> Chr("\t")
    [] OTHER -> 0

\* The rest of a string whose opening quote has been read; acc is its value
\* so far.
RECURSIVE JsonStringFrom(_, _, _)
JsonStringFrom(m, p, acc) ==
  IF p > Len(m) THEN JsonBad
  ELSE IF m[p] = Chr("\"") THEN [ok |-> TRUE, val |-> acc, next |-> p + 1]
  ELSE IF m[p] < 32 THEN JsonBad
  ELSE IF m[p] = Chr("\\")
    THEN IF p + 1 > Len(m) \/ JsonUnescape(m[p + 1]) = 0
           THEN JsonBad
           ELSE JsonStringFrom(m, p + 2, Append(acc, JsonUnescape(m[p + 1])))
    ELSE JsonStringFrom(m, p + 1, Append(acc, m[p]))

JsonString(m, p) ==
  IF p <= Len(m) /\ m[p] = Chr("\"") THEN JsonStringFrom(m, p + 1, <<>>) ELSE JsonBad

\* A value: a string, or the literal true (val is then <<>>, type "true").
JsonValue(m, p) ==
  IF p + 3 <= Len(m) /\ SubSeq(m, p, p + 3) = Str(<<"t", "r", "u", "e">>)
    THEN [ok |-> TRUE, type |-> "true", val |-> <<>>, next |-> p + 4]
    ELSE LET v == JsonString(m, p)
         IN  [ok |-> v.ok, type |-> "string", val |-> v.val, next |-> v.next]

\* The members of an object from position p on, up to the closing brace.
RECURSIVE JsonMembers(_, _, _)
JsonMembers(m, p, acc) ==
  LET key == JsonString(m, p) IN
  IF ~key.ok \/ key.next > Len(m) \/ m[key.next] # Chr(":")
    THEN [ok |-> FALSE, members |-> <<>>, next |-> 0]
    ELSE LET v == JsonValue(m, key.next + 1)
             all == Append(acc, [key |-> key.val, type |-> v.type, val |-> v.val])
         IN  IF ~v.ok \/ v.next > Len(m)
               THEN [ok |-> FALSE, members |-> <<>>, next |-> 0]
               ELSE IF m[v.next] = Chr(",")
                 THEN JsonMembers(m, v.next + 1, all)
                 ELSE IF m[v.next] = Chr("}")
                   THEN [ok |-> TRUE, members |-> all, next |-> v.next + 1]
                   ELSE [ok |-> FALSE, members |-> <<>>, next |-> 0]

\* The message read as one line holding one JSON object.
JsonLine(m) ==
  IF Len(m) >= 2 /\ m[1] = Chr("{")
    THEN LET o == JsonMembers(m, 2, <<>>)
         IN  IF o.ok /\ o.next = Len(m) /\ m[o.next] = Chr("\n")
               THEN [ok |-> TRUE, members |-> o.members]
               ELSE [ok |-> FALSE, members |-> <<>>]
    ELSE [ok |-> FALSE, members |-> <<>>]

HasPrefix(m, p) == Len(m) >= Len(p) /\ SubSeq(m, 1, Len(p)) = p

ReadyStart == Str(<<"{", "\"", "r", "e", "a", "d", "y", "\"", ":">>)
ErrorStart == Str(<<"{", "\"", "e", "r", "r", "o", "r", "\"", ":">>)
KeywordStart == Str(<<"{", "\"", "k", "e", "y", "w", "o", "r", "d", "\"", ":">>)

\* The kind of a message, by the member name it starts with.
MsgKind(m) ==
  IF HasPrefix(m, ReadyStart) THEN "ready"
  ELSE IF HasPrefix(m, ErrorStart) THEN "error"
  ELSE IF HasPrefix(m, KeywordStart) THEN "keyword"
  ELSE "other"

Messages(kind) == {n \in 1..Len(stdout) : MsgKind(stdout[n]) = kind}

(***************************************************************************)
(* C8.                                                                     *)
(***************************************************************************)
\* C8: every message written is one well-formed JSON object on its own
\* line, and the n-th keyword-match message reads as the object whose
\* keyword member is the matched keyword and whose delimiter member is the
\* ending character, or empty.
C8_MessagesAreJson ==
  /\ \A n \in 1..Len(stdout) : JsonLine(stdout[n]).ok
  /\ LET emits == EmitsIn(1, Len(hist))
     IN  \A n \in 1..Len(emits) :
           /\ n + 1 <= Len(stdout)
           /\ JsonLine(stdout[n + 1]).members =
                << [key |-> Str(<<"k", "e", "y", "w", "o", "r", "d">>),
                    type |-> "string", val |-> emits[n].keyword],
                   [key |-> Str(<<"d", "e", "l", "i", "m", "i", "t", "e", "r">>),
                    type |-> "string",
                    val |-> IF emits[n].delimiter = 0 THEN <<>>
                            ELSE <<emits[n].delimiter>>] >>

(***************************************************************************)
(* C9.                                                                     *)
(***************************************************************************)
\* C9: the ready message is written at most once, as the first message and
\* only when SetWindowsHookExW() has returned a hook; it has been written
\* whenever the message loop runs or main() has returned 0, and it is never
\* written in a run where the hook installation failed or main() returned 1.
C9_ReadyOnce ==
  /\ Cardinality(Messages("ready")) <= 1
  /\ Messages("ready") # {} =>
       /\ Messages("ready") = {1}
       /\ hookLog # <<>> /\ hookLog[1] = "SetWindowsHookExW"
       /\ g_hook = "HOOK"
  /\ (pc = "loop" \/ exit_code = 0) => Messages("ready") = {1}
  /\ Messages("keyword") # {} => 1 \in Messages("ready")
  /\ ("SetWindowsHookExW failed" \in Range(hookLog) \/ exit_code \in {1, 2})
       => Messages("ready") = {}

\* C9 witness: a run that wrote the ready message, then a keyword match,
\* and returned 0.
C9_Witness ==
  /\ exit_code = 0
  /\ Messages("ready") = {1}
  /\ Messages("keyword") # {}

(***************************************************************************)
(* C10.                                                                    *)
(***************************************************************************)
\* C10: with no argument, or with no keyword registered from the payload,
\* main() writes one error message and returns 1 without calling
\* SetWindowsHookExW(); when that call fails main() writes one error message
\* and returns 2; an error message is the only message of its run; and
\* main() returns 0 only after the ready message.
C10_FatalErrors ==
  /\ (pc # "main" /\ (argc < 2 \/ g_keyword_count = 0)) =>
       /\ pc = "exited" /\ exit_code = 1
       /\ Len(stdout) = 1 /\ Messages("error") = {1}
       /\ hookLog = <<>> /\ g_hook = "NULL"
  /\ "SetWindowsHookExW failed" \in Range(hookLog) =>
       /\ pc = "exited" /\ exit_code = 2
       /\ Len(stdout) = 1 /\ Messages("error") = {1}
  /\ Messages("error") # {} =>
       /\ Len(stdout) = 1
       /\ pc = "exited" /\ exit_code \in {1, 2}
  /\ pc = "exited" /\ exit_code # 0 => Messages("error") = {1}
  /\ exit_code = 0 => 1 \in Messages("ready")
  /\ pc = "exited" <=> exit_code \in {0, 1, 2}

\* C10 witness: a payload was given and no keyword was registered from it.
C10_Witness ==
  /\ pc = "exited" /\ exit_code = 1
  /\ argc = 2 /\ g_keyword_count = 0
  /\ Messages("error") = {1}

(***************************************************************************)
(* hotkey-hold-monitor.c.  The process is the record monitor; the          *)
(* operators below take and return such a record m.                        *)
(***************************************************************************)
\* The virtual-key codes cg_to_vk() returns by name, and the keys kbhook()
\* reads with GetAsyncKeyState().
VK_TAB == 9
VK_RETURN == 13
VK_SHIFT == 16
VK_CONTROL == 17
VK_MENU == 18
VK_ESCAPE == 27
VK_SPACE == 32
VK_OEM_1 == 186
VK_OEM_PLUS == 187
VK_OEM_COMMA == 188
VK_OEM_MINUS == 189
VK_OEM_PERIOD == 190
VK_OEM_2 == 191
VK_OEM_3 == 192
VK_OEM_4 == 219
VK_OEM_5 == 220
VK_OEM_6 == 221
VK_OEM_7 == 222

\* cg_to_vk(cg)
cg_to_vk(cg) ==
  CASE cg = 0 -> Chr("A") [] cg = 11 -> Chr("B") [] cg = 8 -> Chr("C")
    [] cg = 2 -> Chr("D") [] cg = 14 -> Chr("E") [] cg = 3 -> Chr("F")
    [] cg = 5 -> Chr("G") [] cg = 4 -> Chr("H") [] cg = 34 -> Chr("I")
    [] cg = 38 -> Chr("J") [] cg = 40 -> Chr("K") [] cg = 37 -> Chr("L")
    [] cg = 46 -> Chr("M") [] cg = 45 -> Chr("N") [] cg = 31 -> Chr("O")
    [] cg = 35 -> Chr("P") [] cg = 12 -> Chr("Q") [] cg = 15 -> Chr("R")
    [] cg = 1 -> Chr("S") [] cg = 17 -> Chr("T") [] cg = 32 -> Chr("U")
    [] cg = 9 -> Chr("V") [] cg = 13 -> Chr("W") [] cg = 7 -> Chr("X")
    [] cg = 16 -> Chr("Y") [] cg = 6 -> Chr("Z")
    [] cg = 18 -> Chr("1") [] cg = 19 -> Chr("2") [] cg = 20 -> Chr("3")
    [] cg = 21 -> Chr("4") [] cg = 23 -> Chr("5") [] cg = 22 -> Chr("6")
    [] cg = 26 -> Chr("7") [] cg = 28 -> Chr("8") [] cg = 25 -> Chr("9")
    [] cg = 29 -> Chr("0")
    [] cg = 24 -> VK_OEM_PLUS [] cg = 27 -> VK_OEM_MINUS [] cg = 30 -> VK_OEM_6
    [] cg = 33 -> VK_OEM_4 [] cg = 39 -> VK_OEM_7 [] cg = 41 -> VK_OEM_1
    [] cg = 42 -> VK_OEM_5 [] cg = 43 -> VK_OEM_COMMA [] cg = 44 -> VK_OEM_2
    [] cg = 47 -> VK_OEM_PERIOD [] cg = 50 -> VK_OEM_3
    [] cg = 36 -> VK_RETURN [] cg = 48 -> VK_TAB [] cg = 49 -> VK_SPACE
    [] cg = 53 -> VK_ESCAPE
    [] OTHER -> -1

\* atoi(): white space is skipped, a sign is read, then digits up to the
\* first byte that is no digit.
RECURSIVE atoi_digits(_, _, _)
atoi_digits(s, p, acc) ==
  IF p > Len(s) \/ s[p] \notin Chr("0")..Chr("9")
    THEN acc
    ELSE atoi_digits(s, p + 1, acc * 10 + (s[p] - Chr("0")))

RECURSIVE atoi_from(_, _)
atoi_from(s, p) ==
  IF p > Len(s) THEN 0
  ELSE IF s[p] \in {Chr(" "), Chr("\t"), Chr("\n"), Chr("\r"), 11, 12} THEN atoi_from(s, p + 1)
  ELSE IF s[p] = Chr("-") THEN 0 - atoi_digits(s, p + 1, 0)
  ELSE IF s[p] = Chr("+") THEN atoi_digits(s, p + 1, 0)
  ELSE atoi_digits(s, p, 0)

atoi(s) == atoi_from(s, 1)

\* The lines main() and kbhook() pass to emit().
HoldUsageMsg == "{\"error\":\"Usage: hotkey-hold-monitor cgKeyCode cmd ctrl alt shift fn\"}"
HoldUnsupportedMsg == "{\"error\":\"Key code not supported on Windows\"}"
HoldHookFailedMsg == "{\"error\":\"SetWindowsHookEx failed\"}"
HoldReadyMsg == "{\"ready\":true}"
PressedMsg == "{\"pressed\":true}"
ReleasedKeyUpMsg == "{\"released\":true,\"reason\":\"key-up\"}"
ReleasedModifierUpMsg == "{\"released\":true,\"reason\":\"modifier-up\"}"

\* emit(json): one line written to the standard output of the monitor
emit(m, json) == [m EXCEPT !.stdout = Append(@, json)]

\* PostQuitMessage(0)
PostQuitMessage(m) == [m EXCEPT !.quit = TRUE]

\* kbhook(nCode, wp, lp), before it calls CallNextHookEx().  in = [nCode, wp,
\* vk, ctrl, alt, shift]: kb->vkCode and what GetAsyncKeyState() reports for
\* VK_CONTROL, VK_MENU and VK_SHIFT.
kbhook(m, in) ==
  IF in.nCode = HC_ACTION
    THEN IF in.wp = "WM_KEYDOWN" \/ in.wp = "WM_SYSKEYDOWN"
           THEN IF /\ m.g_pressed = 0 /\ in.vk = m.g_vk
                   /\ in.ctrl = m.g_need_ctrl
                   /\ in.alt = m.g_need_alt
                   /\ in.shift = m.g_need_shift
                  THEN emit([m EXCEPT !.g_pressed = 1], PressedMsg)
                  ELSE m
           ELSE IF in.wp = "WM_KEYUP" \/ in.wp = "WM_SYSKEYUP"
             THEN IF m.g_pressed # 0
                    THEN IF in.vk = m.g_vk
                           THEN PostQuitMessage(emit(m, ReleasedKeyUpMsg))
                           ELSE LET mods_ok == /\ in.ctrl = m.g_need_ctrl
                                               /\ in.alt = m.g_need_alt
                                               /\ in.shift = m.g_need_shift
                                IN  IF ~mods_ok
                                      THEN PostQuitMessage(emit(m, ReleasedModifierUpMsg))
                                      ELSE m
                    ELSE m
             ELSE m
    ELSE m

(***************************************************************************)
(* The runs of the monitor explored: the command lines main() is started   *)
(* with, and the calls of kbhook() delivered while the message loop runs.  *)
(***************************************************************************)
\* A bound: the calls of kbhook() delivered in one run.
MaxHookCalls == 4

HoldConfigs ==
  { \* 0 0 0 0 0 0: the key A, no modifier required
    <<Str(<<"0">>), Str(<<"0">>), Str(<<"0">>), Str(<<"0">>), Str(<<"0">>), Str(<<"0">>)>>,
    \* 49 0 1 0 1 0: Space with Ctrl and Shift
    <<Str(<<"4", "9">>), Str(<<"0">>), Str(<<"1">>), Str(<<"0">>), Str(<<"1">>), Str(<<"0">>)>>,
    \* 11 1 0 1 0 1: the key B with Alt (cmd and fn are ignored)
    <<Str(<<"1", "1">>), Str(<<"1">>), Str(<<"0">>), Str(<<"1">>), Str(<<"0">>), Str(<<"1">>)>>,
    \* " 44x" 0 01 0 1 0: the key / with Shift ("01" is not "1")
    <<Str(<<" ", "4", "4", "x">>), Str(<<"0">>), Str(<<"0", "1">>), Str(<<"0">>),
      Str(<<"1">>), Str(<<"0">>)>>,
    \* 63 0 0 0 0 0: Fn, which has no virtual key
    <<Str(<<"6", "3">>), Str(<<"0">>), Str(<<"0">>), Str(<<"0">>), Str(<<"0">>), Str(<<"0">>)>>,
    \* 0 0: too few arguments
    <<Str(<<"0">>), Str(<<"0">>)>> }

\* The calls of kbhook(): key-downs and key-ups of the target key and of the
\* Shift key under every reading of Ctrl, Alt and Shift, and a call with a
\* code other than HC_ACTION.
KbhookInputs ==
  {[nCode |-> HC_ACTION, wp |-> w, vk |-> v, ctrl |-> c, alt |-> a, shift |-> sh] :
     w \in {"WM_KEYDOWN", "WM_SYSKEYDOWN", "WM_KEYUP", "WM_SYSKEYUP"},
     v \in {monitor.g_vk, VK_SHIFT}, c \in {0, 1}, a \in {0, 1}, sh \in {0, 1}}
  \cup {[nCode |-> -1, wp |-> "WM_KEYDOWN", vk |-> monitor.g_vk,
         ctrl |-> 0, alt |-> 0, shift |-> 0]}

\* The process of snippet-expander-win.c, not started.
ExpanderOff ==
  /\ pc = "off"
  /\ exit_code = -1
  /\ argv = <<>>
  /\ layoutUnits = {}
  /\ env = "off"
  /\ g_hook = "NULL"
  /\ hookLog = <<>>
  /\ g_keywords = <<>>
  /\ g_max_keyword_len = 1
  /\ g_allowed = {}
  /\ g_delimiters = {}
  /\ g_token = <<>>
  /\ stdout = <<>>
  /\ hist = <<>>
  /\ lastKey = NoKey

expanderVars ==
  <<pc, exit_code, argv, layoutUnits, env, g_hook, hookLog, g_keywords,
    g_max_keyword_len, g_allowed, g_delimiters, g_token, stdout, hist, lastKey>>

HoldInit ==
  /\ ExpanderOff
  /\ appendLog = <<>>
  /\ \E a \in HoldConfigs : monitor = [MonitorOff EXCEPT !.pc = "main", !.argv = a]

\* main(), from its entry to the call of SetWindowsHookExW()
HoldMainConfigure ==
  /\ monitor.pc = "main"
  /\ monitor' =
       IF Len(monitor.argv) + 1 < 7
         THEN [emit(monitor, HoldUsageMsg) EXCEPT !.pc = "exited", !.exit_code = 1]
         ELSE LET cg_code == atoi(monitor.argv[1])
                  m == [monitor EXCEPT
                          !.g_need_ctrl = IF monitor.argv[3] = Str(<<"1">>) THEN 1 ELSE 0,
                          !.g_need_alt = IF monitor.argv[4] = Str(<<"1">>) THEN 1 ELSE 0,
                          !.g_need_shift = IF monitor.argv[5] = Str(<<"1">>) THEN 1 ELSE 0,
                          !.g_vk = cg_to_vk(cg_code)]
              IN  IF m.g_vk < 0
                    THEN [emit(m, HoldUnsupportedMsg) EXCEPT !.pc = "exited", !.exit_code = 1]
                    ELSE [m EXCEPT !.pc = "install"]
  /\ UNCHANGED <<expanderVars, appendLog>>

\* main(): SetWindowsHookExW() returning a hook (ok) or NULL, then the ready
\* line
HoldMainInstallHook(ok) ==
  /\ monitor.pc = "install"
  /\ LET m == [monitor EXCEPT
                 !.g_hook = IF ok THEN "HOOK" ELSE "NULL",
                 !.hookLog = Append(@, IF ok THEN "SetWindowsHookExW"
                                             ELSE "SetWindowsHookExW failed")]
     IN  monitor' =
           IF m.g_hook = "NULL"
             THEN [emit(m, HoldHookFailedMsg) EXCEPT !.pc = "exited", !.exit_code = 2]
             ELSE [emit(m, HoldReadyMsg) EXCEPT !.pc = "loop"]
  /\ UNCHANGED <<expanderVars, appendLog>>

\* The message loop dispatching one call of kbhook().
Kbhook(in) ==
  /\ monitor.pc = "loop"
  /\ monitor.calls < MaxHookCalls
  /\ monitor' = [kbhook(monitor, in) EXCEPT
                   !.last = [nCode |-> in.nCode, wp |-> in.wp, vk |-> in.vk,
                             ctrl |-> in.ctrl, alt |-> in.alt, shift |-> in.shift,
                             nout |-> Len(monitor.stdout)],
                   !.calls = @ + 1]
  /\ UNCHANGED <<expanderVars, appendLog>>

\* main() of the monitor returning 0 without UnhookWindowsHookEx().
HoldMainLoopEnd_NoUnhook(ret) ==
  /\ monitor.pc = "loop"
  /\ ret <= 0
  /\ monitor' = [monitor EXCEPT !.pc = "exited", !.exit_code = 0]
  /\ UNCHANGED <<expanderVars, appendLog>>

\* main(): GetMessage() returning ret <= 0, UnhookWindowsHookEx(), return 0
HoldMainLoopEnd(ret) ==
  /\ monitor.pc = "loop"
  /\ ret <= 0
  /\ monitor' = [monitor EXCEPT !.hookLog = Append(@, "UnhookWindowsHookEx"),
                                !.pc = "exited", !.exit_code = 0]
  /\ UNCHANGED <<expanderVars, appendLog>>

HoldNext ==
  \/ HoldMainConfigure
  \/ \E ok \in BOOLEAN : HoldMainInstallHook(ok)
  \/ \E in \in KbhookInputs : Kbhook(in)
  \/ \E ret \in {0, -1} : HoldMainLoopEnd(ret)

HoldSpec == HoldInit /\ [][HoldNext]_vars

(***************************************************************************)
(* Either program, run once.                                               *)
(***************************************************************************)
HookInit == Init \/ HoldInit

HookNext == Next \/ HoldNext

HookSpec == HookInit /\ [][HookNext]_vars

(***************************************************************************)
(* C11.                                                                    *)
(***************************************************************************)
\* The hook API calls of one process, at position p of its main() with the
\* exit status code: SetWindowsHookExW() is called at most once; while the
\* message loop runs the hook is installed and not released; a process that
\* has exited has released the hook it installed, once, and has released
\* nothing if it installed none.
HookDiscipline(p, code, log) ==
  /\ log \in {<<>>, <<"SetWindowsHookExW failed">>, <<"SetWindowsHookExW">>,
              <<"SetWindowsHookExW", "UnhookWindowsHookEx">>}
  /\ p = "loop" <=> log = <<"SetWindowsHookExW">>
  /\ p = "exited" =>
       /\ code = 0 <=> log = <<"SetWindowsHookExW", "UnhookWindowsHookEx">>
       /\ code = 2 <=> log = <<"SetWindowsHookExW failed">>
       /\ code = 1 <=> log = <<>>
  /\ p \in {"off", "main", "install"} => log = <<>>

\* C11: in either program the keyboard hook is acquired at most once per
\* run, every exit path on which it was acquired releases it exactly once
\* before the process exits, and no exit path releases a hook that was never
\* installed.
C11_HookAcquiredOnceReleasedOnce ==
  /\ HookDiscipline(pc, exit_code, hookLog)
  /\ (hookLog # <<>> /\ hookLog[1] = "SetWindowsHookExW") <=> g_hook = "HOOK"
  /\ HookDiscipline(monitor.pc, monitor.exit_code, monitor.hookLog)
  /\ (monitor.hookLog # <<>> /\ monitor.hookLog[1] = "SetWindowsHookExW")
       <=> monitor.g_hook = "HOOK"

\* C11 witness: the monitor installed its hook, wrote a released line, left
\* the loop and exited after releasing the hook.
C11_Witness ==
  /\ monitor.pc = "exited" /\ monitor.exit_code = 0
  /\ monitor.quit
  /\ monitor.hookLog = <<"SetWindowsHookExW", "UnhookWindowsHookEx">>

(***************************************************************************)
(* The registry alone: append_keyword() called on texts one by one, from   *)
(* an empty registry, from one with a single free slot and from a full     *)
(* one.                                                                    *)
(***************************************************************************)
\* A bound: the calls of append_keyword() made in one run.
MaxAppends == 2

\* The text of n bytes c.
Rep(c, n) == [i \in 1..n |-> c]

\* The raw texts registered: short ones that differ in letter case, the
\* empty one, and long ones that differ at or beyond byte MAX_KEYWORD_LEN.
Texts ==
  { Str(<<"a", "b">>), Str(<<"A", "B">>), Str(<<"a", "B">>), Str(<<"b">>), <<>>,
    Rep(Chr("k"), MAX_KEYWORD_LEN - 1),
    Rep(Chr("k"), MAX_KEYWORD_LEN),
    Rep(Chr("k"), MAX_KEYWORD_LEN) \o Str(<<"x">>),
    Rep(Chr("k"), MAX_KEYWORD_LEN) \o Str(<<"y", "z">>),
    Rep(Chr("K"), MAX_KEYWORD_LEN) \o Str(<<"Z">>) }

\* A registry of n keywords of three digits each: "000", "001", ...
Filled(n) ==
  [kws |-> [i \in 1..n |-> <<Chr("0") + ((i - 1) \div 100),
                             Chr("0") + (((i - 1) \div 10) % 10),
                             Chr("0") + ((i - 1) % 10)>>],
   maxlen |-> IF n = 0 THEN 1 ELSE 3]

RegInit ==
  /\ \E n \in {0, MAX_KEYWORDS - 1, MAX_KEYWORDS} :
       g_keywords = Filled(n).kws /\ g_max_keyword_len = Filled(n).maxlen
  /\ pc = "off"
  /\ exit_code = -1
  /\ argv = <<>>
  /\ layoutUnits = {}
  /\ env = "off"
  /\ g_hook = "NULL"
  /\ hookLog = <<>>
  /\ g_allowed = {}
  /\ g_delimiters = {}
  /\ g_token = <<>>
  /\ stdout = <<>>
  /\ hist = <<>>
  /\ lastKey = NoKey
  /\ appendLog = <<>>
  /\ monitor = MonitorOff

\* One call append_keyword(src); the log keeps the text, the value returned
\* and the registry left.
AppendKeyword(src) ==
  /\ Len(appendLog) < MaxAppends
  /\ LET r == append_keyword([kws |-> g_keywords, maxlen |-> g_max_keyword_len], src)
     IN  /\ g_keywords' = r.reg.kws
         /\ g_max_keyword_len' = r.reg.maxlen
         /\ appendLog' = Append(appendLog, [src |-> src, ret |-> r.ret, reg |-> r.reg])
  /\ UNCHANGED <<pc, exit_code, argv, layoutUnits, env, g_hook, hookLog, g_allowed,
                 g_delimiters, g_token, stdout, hist, lastKey, monitor>>

RegNext == \E src \in Texts : AppendKeyword(src)

RegSpec == RegInit /\ [][RegNext]_vars

(***************************************************************************)
(* C12.                                                                    *)
(***************************************************************************)
\* Two raw texts name the same keyword: they agree, letter case apart, on
\* their first MAX_KEYWORD_LEN bytes.
SameKeyword(t, u) ==
  /\ Min(Len(t), MAX_KEYWORD_LEN) = Min(Len(u), MAX_KEYWORD_LEN)
  /\ \A i \in 1..Min(Len(t), MAX_KEYWORD_LEN) : tolower(t[i]) = tolower(u[i])

\* C12: from every registry state, registering a text and then a text that
\* names the same keyword (the same text, or one that differs in letter case
\* or beyond byte 128 only) leaves the stored keywords, their count and
\* g_max_keyword_len as the first registration left them.
C12_RegistrationIdempotent ==
  /\ \A t \in Texts : \A u \in Texts :
       SameKeyword(t, u) =>
         LET once == append_keyword([kws |-> g_keywords, maxlen |-> g_max_keyword_len], t).reg
         IN  append_keyword(once, u).reg = once
  /\ \A i \in 2..Len(appendLog) :
       SameKeyword(appendLog[i - 1].src, appendLog[i].src)
         => appendLog[i].reg = appendLog[i - 1].reg
  /\ appendLog # <<>> =>
       appendLog[Len(appendLog)].reg = [kws |-> g_keywords, maxlen |-> g_max_keyword_len]

\* C12 witness: a text longer than 128 bytes was registered, and then one
\* that differs from it in letter case and beyond byte 128.
C12_Witness ==
  \E i \in 2..Len(appendLog) :
    /\ Len(appendLog[i - 1].src) > MAX_KEYWORD_LEN
    /\ Len(appendLog[i].src) > MAX_KEYWORD_LEN
    /\ SameKeyword(appendLog[i - 1].src, appendLog[i].src)
    /\ appendLog[i - 1].src[1] # appendLog[i].src[1]
    /\ Len(appendLog[i - 1].src) # Len(appendLog[i].src)
    /\ appendLog[i - 1].ret = 1 /\ appendLog[i].ret = 1
    /\ Len(g_keywords) = 1 /\ g_max_keyword_len = MAX_KEYWORD_LEN

(***************************************************************************)
(* C13.                                                                    *)
(***************************************************************************)
\* seed_charsets() and apply_keyword_chars_to_charsets() have both run.
Widened == pc # "main" /\ g_keyword_count > 0

\* C13: as seeded and as widened, no byte is both a token character and a
\* delimiter, and once the classifier is widened every byte of a registered
\* keyword other than space, tab, CR and LF is a token character and no
\* delimiter.
C13_ClassifierDisjoint ==
  /\ seed_allowed \cap seed_delimiters = {}
  /\ g_allowed \cap g_delimiters = {}
  /\ (g_allowed \cup g_delimiters) \subseteq 0..255
  /\ (pc = "exited" /\ exit_code = 1 /\ argc >= 2) =>
       g_allowed = seed_allowed /\ g_delimiters = seed_delimiters
  /\ Widened =>
       \A k \in Keywords : \A j \in 1..Len(k) :
         k[j] \notin Whitespace => k[j] \in g_allowed /\ k[j] \notin g_delimiters

\* C13 witness: the widening pass has made a default delimiter that occurs
\* in a keyword a token character, and keys have been typed since.
C13_Witness ==
  /\ Widened
  /\ \E k \in Keywords : \E j \in 1..Len(k) :
       k[j] \in seed_delimiters \ Whitespace /\ k[j] \in g_allowed
  /\ g_delimiters # seed_delimiters
  /\ hist # <<>>

(***************************************************************************)
(* Reading the monitor's output.                                           *)
(***************************************************************************)
\* The lines the last call of kbhook() wrote.
HoldEmitted ==
  SubSeq(monitor.stdout, monitor.last.nout + 1, Len(monitor.stdout))

\* The positions of the pressed and of the released lines in the output.
PressedAt == {i \in 1..Len(monitor.stdout) : monitor.stdout[i] = PressedMsg}
ReleasedAt ==
  {i \in 1..Len(monitor.stdout) :
     monitor.stdout[i] \in {ReleasedKeyUpMsg, ReleasedModifierUpMsg}}

\* The last call of kbhook() read the modifiers as the command line requires.
ModifiersAsRequired ==
  /\ monitor.last.ctrl = monitor.g_need_ctrl
  /\ monitor.last.alt = monitor.g_need_alt
  /\ monitor.last.shift = monitor.g_need_shift

\* The last call of kbhook() read a required modifier as not held.
RequiredModifierUp ==
  \/ monitor.g_need_ctrl = 1 /\ monitor.last.ctrl = 0
  \/ monitor.g_need_alt = 1 /\ monitor.last.alt = 0
  \/ monitor.g_need_shift = 1 /\ monitor.last.shift = 0

(***************************************************************************)
(* C14.                                                                    *)
(***************************************************************************)
\* C14: a released line is written only after a pressed line; a pressed line
\* is written at most once, and only by a key-down of the target key read
\* with Ctrl, Alt and Shift as required; a released line with the reason
\* modifier-up is written only when a required modifier is read as no longer
\* held.
C14_HoldProtocol ==
  /\ \A i \in ReleasedAt : \E j \in PressedAt : j < i
  /\ Cardinality(PressedAt) <= 1
  /\ PressedMsg \in Range(HoldEmitted) =>
       /\ monitor.last.nCode = HC_ACTION
       /\ monitor.last.wp \in {"WM_KEYDOWN", "WM_SYSKEYDOWN"}
       /\ monitor.last.vk = monitor.g_vk
       /\ ModifiersAsRequired
  /\ ReleasedModifierUpMsg \in Range(HoldEmitted) => RequiredModifierUp

(***************************************************************************)
(* C15.                                                                    *)
(***************************************************************************)
\* C15: every keyword-match event carries a registered keyword that is the
\* token buffer as it stood when the event was emitted (the buffer with the
\* character appended and trimmed on the token-character path, the buffer
\* the delimiter found on the delimiter path); its delimiter is the empty
\* sentinel on the token-character path and the delimiter byte typed on the
\* other; and the token buffer is empty just after it.  Every event is one
\* line of standard output after the ready line.
C15_MatchEventWellFormed ==
  /\ \A i \in 1..Len(hist) :
       /\ Len(hist[i].emit) <= 1
       /\ Fired(i) =>
            LET e == hist[i].emit[1]
                c == tolower(hist[i].c)
            IN  /\ hist[i].kind = "char"
                /\ e.keyword \in Keywords
                /\ hist[i].tok = <<>>
                /\ IF e.delimiter = 0
                     THEN /\ c \in g_allowed
                          /\ e.keyword = Last(Append(TokBefore(i), c), g_max_keyword_len)
                     ELSE /\ e.delimiter = c
                          /\ c \notin g_allowed /\ c \in g_delimiters
                          /\ e.keyword = TokBefore(i)
  /\ hist # <<>> =>
       /\ Len(stdout) = 1 + Len(EmitsIn(1, Len(hist)))
       /\ Messages("keyword") = 2..Len(stdout)

\* C15 witness: a match was emitted at a delimiter, carrying the buffer a
\* backspace had left.
C15_Witness ==
  \E j \in 2..Len(hist) :
    /\ Fired(j) /\ hist[j].emit[1].delimiter # 0
    /\ hist[j - 1].kind = "back"
    /\ hist[j].emit[1].keyword = hist[j - 1].tok
    /\ g_token = <<>>

(***************************************************************************)
(* C16.                                                                    *)
(***************************************************************************)
\* The last call of keyboard_hook() was a key-down that process_key_event()
\* passed to ToUnicodeEx(): not Backspace, no modifier held, the keyboard
\* state read.
DecodedKeyDown ==
  /\ lastKey.nCode = HC_ACTION
  /\ lastKey.wp \in {"WM_KEYDOWN", "WM_SYSKEYDOWN"}
  /\ lastKey.key.vk = "VK_KEY"
  /\ is_modifier_down(lastKey.key.held) = 0
  /\ lastKey.key.kbOk

\* C16: a key-down that decodes to no unit leaves the token buffer as it was
\* and writes nothing; with the status 0 ToUnicodeEx() is called once, with
\* the keyboard state, and with a negative status once more, with the
\* all-keys-up state, within the same key event.
C16_ZeroUnitsFrame ==
  (DecodedKeyDown /\ lastKey.key.rc <= 0) =>
    /\ g_token = lastKey.before
    /\ Len(stdout) = lastKey.nout
    /\ lastKey.calls = IF lastKey.key.rc < 0
                         THEN <<"key_state", "empty_state">>
                         ELSE <<"key_state">>

\* C16 witness: a dead key was pressed while the token buffer held a
\* character.
C16_Witness ==
  /\ DecodedKeyDown /\ lastKey.key.rc < 0
  /\ lastKey.before # <<>>
  /\ g_token = lastKey.before
  /\ "empty_state" \in Range(lastKey.calls)

(***************************************************************************)
(* C17.                                                                    *)
(***************************************************************************)
\* What the engine is to do with one unit u on the token buffer prev: the
\* buffer it leaves and the events it emits.
UnitOutcome(prev, u) ==
  LET c == tolower(u)
      w == Last(Append(prev, c), g_max_keyword_len)
  IN  IF u <= 0 \/ u > 127 THEN [kind |-> "clear", tok |-> <<>>, emit |-> <<>>]
      ELSE IF c \in g_allowed
        THEN IF w \in Keywords
               THEN [kind |-> "char", tok |-> <<>>,
                     emit |-> <<[keyword |-> w, delimiter |-> 0]>>]
               ELSE [kind |-> "char", tok |-> w, emit |-> <<>>]
        ELSE IF c \in g_delimiters /\ prev \in Keywords
          THEN [kind |-> "char", tok |-> <<>>,
                emit |-> <<[keyword |-> prev, delimiter |-> c]>>]
          ELSE [kind |-> "char", tok |-> <<>>, emit |-> <<>>]

\* C17: the units one key-down decodes to are handled one by one, in order,
\* each on the buffer the unit before it left: a unit above 127 clears the
\* buffer and emits nothing, a unit that completes a match emits it and
\* leaves the buffer empty for the next unit, and the key event ends with the
\* buffer the last unit left and the events of all its units written.
C17_UnitsInOrder ==
  (DecodedKeyDown /\ lastKey.key.rc > 0) =>
    LET n == lastKey.key.rc
        base == Len(hist) - n
    IN  /\ base >= 0
        /\ \A j \in 1..n :
             LET prev == IF j = 1 THEN lastKey.before ELSE hist[base + j - 1].tok
                 o == UnitOutcome(prev, lastKey.key.wbuf[j])
                 h == hist[base + j]
             IN  /\ h.kind = o.kind /\ h.tok = o.tok /\ h.emit = o.emit
                 /\ h.kind = "char" => h.c = lastKey.key.wbuf[j]
        /\ g_token = hist[Len(hist)].tok
        /\ Len(stdout) = lastKey.nout + Len(EmitsIn(base + 1, Len(hist)))

\* C17 witness: the first unit of a key-down completed a match, and the
\* second was appended to the emptied buffer.
C17_Witness ==
  /\ DecodedKeyDown /\ lastKey.key.rc >= 2
  /\ lastKey.before # <<>>
  /\ Fired(Len(hist) - lastKey.key.rc + 1)
  /\ Len(g_token) = lastKey.key.rc - 1

(***************************************************************************)
(* C18.                                                                    *)
(***************************************************************************)
\* C18: after every input the engine handles other than a backspace, the
\* token buffer is no registered keyword; so a match that carries a
\* delimiter is emitted only when the input just before the delimiter was a
\* backspace, one that removed a byte and left the keyword.
C18_KeywordInBufferOnlyAfterBackspace ==
  /\ \A i \in 1..Len(hist) : hist[i].kind # "back" => hist[i].tok \notin Keywords
  /\ \A i \in 1..Len(hist) :
       (Fired(i) /\ hist[i].emit[1].delimiter # 0) =>
         /\ i >= 3
         /\ hist[i - 1].kind = "back"
         /\ hist[i - 1].tok = hist[i].emit[1].keyword
         /\ Len(TokBefore(i - 1)) = Len(hist[i - 1].tok) + 1

\* C18 witness: a token character left a buffer that is no keyword, a
\* backspace cut it to a keyword, and the delimiter typed next emitted the
\* match.
C18_Witness ==
  /\ Len(hist) >= 3
  /\ LET j == Len(hist)
     IN  /\ hist[j - 2].kind = "char" /\ hist[j - 2].tok \notin Keywords
         /\ hist[j - 1].kind = "back" /\ hist[j - 1].tok \in Keywords
         /\ Fired(j) /\ hist[j].emit[1].delimiter # 0

(***************************************************************************)
(* C19.                                                                    *)
(***************************************************************************)
\* The last call of keyboard_hook() was a key-down of Backspace.
BackspaceKeyDown ==
  /\ lastKey.nCode = HC_ACTION
  /\ lastKey.wp \in {"WM_KEYDOWN", "WM_SYSKEYDOWN"}
  /\ lastKey.key.vk = "VK_BACK"

\* C19: a key-down of Backspace, whatever modifier is held, removes the last
\* byte of a token buffer that is not empty and leaves an empty one empty,
\* keeps the bytes before it, writes nothing and decodes nothing.
C19_BackspaceBeforeModifiers ==
  BackspaceKeyDown =>
    /\ g_token = IF lastKey.before = <<>>
                   THEN <<>>
                   ELSE SubSeq(lastKey.before, 1, Len(lastKey.before) - 1)
    /\ Len(stdout) = lastKey.nout
    /\ lastKey.calls = <<>>
    /\ hist # <<>> /\ hist[Len(hist)].kind = "back" /\ hist[Len(hist)].emit = <<>>

\* C19 witness: Backspace was pressed with Ctrl held on a buffer of two
\* bytes, and the first byte is still there.
C19_Witness ==
  /\ BackspaceKeyDown
  /\ "VK_CONTROL" \in lastKey.key.held
  /\ Len(lastKey.before) = 2
  /\ g_token = <<lastKey.before[1]>>

(***************************************************************************)
(* C20.                                                                    *)
(***************************************************************************)
\* C20: once a released line has been written, kbhook() writes no further
\* pressed or released line in that run, whatever calls it receives before
\* the message loop ends; the quit message has then been posted, and the
\* process that has left the loop has released the hook and returned 0.
C20_HoldOneShot ==
  /\ Cardinality(ReleasedAt) <= 1
  /\ \A i \in ReleasedAt : \A j \in (i + 1)..Len(monitor.stdout) :
       j \notin PressedAt \cup ReleasedAt
  /\ ReleasedAt # {} =>
       /\ monitor.quit
       /\ monitor.pc \in {"loop", "exited"}
       /\ monitor.pc = "exited" =>
            /\ monitor.exit_code = 0
            /\ monitor.hookLog = <<"SetWindowsHookExW", "UnhookWindowsHookEx">>
====
